---- MODULE Spec2Model ----
(***************************************************************************)
(* Verification model of the ingestion core of jose20d/TFM:                *)
(*   - week1_ingestion: cli.main, run_pipeline, build_source, the source   *)
(*     classes and normalize_to_records;                                   *)
(*   - scripts/demo_fetch.py and its archived variant: request_with_retries*)
(*     the response classifier and the fetch handlers.                     *)
(* Every sub-system has its own specification over its own variables; the  *)
(* variables of the other sub-systems are parked at their idle values.     *)
(***************************************************************************)
EXTENDS Integers, Sequences, FiniteSets, TLC

VARIABLES
    \* ---- week1_ingestion run (cli.main + run_pipeline) ----
    pc,              \* position of the process
    cfgFile,         \* what --config points at
    sourcesCfg,      \* config["sources"] when it is a list: a sequence of descriptors
    allowPartialCfg, \* config["run"]["allow_partial"]
    allowPartialArg, \* --allow-partial
    debug,           \* --debug
    idx,             \* number of source entries the loop has finished
    cur,             \* handler built for the entry being fetched
    manifest,        \* the in-memory manifest dict
    all_ok,          \* run_pipeline's all_ok
    exit_code,       \* exit status of the process (NoExit while running)
    disk,            \* files written under run_dir: set of [dir, name, by, keys]
    manifestWrites,  \* number of write_json(run_dir/"manifest.json", ...) calls
    builds,          \* number of build_source calls
    runs,            \* number of src.run() calls
    outcomes,        \* what happened to each source so far, in loop order
    \* ---- one logical HTTP fetch (request_with_retries / _fetch_with_retries) ----
    rq,
    \* ---- one response going through a fetch handler's classifier ----
    hd,
    \* ---- one call of the paginated handler ----
    pg,
    \* ---- one call of normalize_to_records ----
    nz,
    \* ---- two runs of the pipeline on the same out_root ----
    rn,
    \* ---- one call of the WMS handler's layer extraction ----
    wm,
    \* ---- one parsed payload in the simple JSON handler (schema, truncation) ----
    sc,
    \* ---- one call of the archived WMS handler over its candidate URLs ----
    wc,
    \* ---- the demo script's fixed directory of one source across runs ----
    dm,
    \* ---- download_datasets: one dataset across runs ----
    dl

pipeVars == <<pc, cfgFile, debug, sourcesCfg, allowPartialCfg, allowPartialArg, idx, cur,
              manifest, all_ok, exit_code, disk, manifestWrites, builds, runs,
              outcomes>>
vars == <<pipeVars, rq, hd, pg, nz, rn, wm, sc, wc, dm, dl>>
notPipe == <<rq, hd, pg, nz, rn, wm, sc, wc, dm, dl>>
notRq == <<pipeVars, hd, pg, nz, rn, wm, sc, wc, dm, dl>>
notHd == <<pipeVars, rq, pg, nz, rn, wm, sc, wc, dm, dl>>
notPg == <<pipeVars, rq, hd, nz, rn, wm, sc, wc, dm, dl>>
notNz == <<pipeVars, rq, hd, pg, rn, wm, sc, wc, dm, dl>>
notRn == <<pipeVars, rq, hd, pg, nz, wm, sc, wc, dm, dl>>
notWm == <<pipeVars, rq, hd, pg, nz, rn, sc, wc, dm, dl>>
notSc == <<pipeVars, rq, hd, pg, nz, rn, wm, wc, dm, dl>>
notWc == <<pipeVars, rq, hd, pg, nz, rn, wm, sc, dm, dl>>
notDm == <<pipeVars, rq, hd, pg, nz, rn, wm, sc, wc, dl>>
notDl == <<pipeVars, rq, hd, pg, nz, rn, wm, sc, wc, dm>>

-----------------------------------------------------------------------------
(* Bounds of the model *)
MaxSources == 2
MaxRecords == 1
MaxRetries == 6
MaxLimit == 4
MaxPageSize == 2
MaxLen == 2
MaxClock == 1
MaxLayers == 2
MaxRuns == 2
MaxAttempts == 3

(* Program constants *)
BackoffCap == 16
FetchBackoffCap == 8
AuthWindow == 4000
HtmlWindow == 200
PerPageMin == 50
PerPageMax == 1000

-----------------------------------------------------------------------------
(* Values *)
ABSENT == "<absent>"          \* a key the JSON object does not have
\* What --config points at: no file, a file that is not JSON, JSON that is not an
\* object, an object whose "sources" is not a list, an object with a list.
CfgFiles == {"missing", "unparseable", "not_an_object", "sources_not_a_list", "ok"}
NoExit == -1                  \* the process has not exited
NoRecords == -1               \* SourceResult.records is None
NoHandler == "<none>"

\* Representative source descriptors (id, type, request.url / file.path present).
SourceCfgs ==
    { [id |-> "a",    type |-> "http_json", target |-> TRUE],
      [id |-> "b",    type |-> "file_json", target |-> TRUE],
      [id |-> "a",    type |-> "file_csv",  target |-> TRUE],
      [id |-> ABSENT, type |-> "http_json", target |-> TRUE],
      [id |-> "b",    type |-> ABSENT,      target |-> TRUE],
      [id |-> "b",    type |-> "http_json", target |-> FALSE],
      [id |-> "a",    type |-> "file_csv",  target |-> FALSE],
      [id |-> "b",    type |-> "wms_xml",   target |-> TRUE] }

SourceLists == UNION { [1..n -> SourceCfgs] : n \in 0..MaxSources }

-----------------------------------------------------------------------------
(* week1_ingestion/sources/factory.py *)

\* Mutant of build_source: request.url and file.path are not looked at.
build_source_any_target(source_cfg) ==
    IF source_cfg.id = ABSENT \/ source_cfg.type = ABSENT THEN "SourceError"
    ELSE IF source_cfg.type = "http_json" THEN "HttpJsonSource"
    ELSE IF source_cfg.type = "file_json" THEN "FileJsonSource"
    ELSE IF source_cfg.type = "file_csv" THEN "FileCsvSource"
    ELSE "SourceError"

\* build_source: the handler class built for a descriptor, or "SourceError".
build_source(source_cfg) ==
    IF source_cfg.id = ABSENT \/ source_cfg.type = ABSENT THEN "SourceError"
    ELSE IF source_cfg.type = "http_json"
         THEN (IF source_cfg.target THEN "HttpJsonSource" ELSE "SourceError")
    ELSE IF source_cfg.type = "file_json"
         THEN (IF source_cfg.target THEN "FileJsonSource" ELSE "SourceError")
    ELSE IF source_cfg.type = "file_csv"
         THEN (IF source_cfg.target THEN "FileCsvSource" ELSE "SourceError")
    ELSE "SourceError"

(* week1_ingestion/sources/{http_json,file_json,file_csv}.py: run() *)

\* What the outside world hands to one run(): the fetch/read fails, the payload
\* is read but normalisation raises, or n records come out.
Outcomes(handler) ==
    { [kind |-> "fetch_error", n |-> 0] }
    \cup (IF handler = "FileCsvSource" THEN {}
          ELSE { [kind |-> "normalize_error", n |-> 0] })
    \cup { [kind |-> "records", n |-> k] : k \in 0..MaxRecords }

\* SourceResult of run() and the files run() itself writes into out_dir.
SourceRun(handler, outcome) ==
    IF outcome.kind = "records"
    THEN [ok |-> TRUE, records |-> outcome.n, raw_saved |-> TRUE,
          files |-> {"raw.json"}]
    ELSE IF outcome.kind = "normalize_error"
    THEN [ok |-> FALSE, records |-> NoRecords, raw_saved |-> TRUE,
          files |-> {"raw.json", "error.json"}]
    ELSE [ok |-> FALSE, records |-> NoRecords, raw_saved |-> FALSE,
          files |-> {"error.json"}]

-----------------------------------------------------------------------------
(* week1_ingestion/pipeline.py and cli.py *)

\* source_id = str(source_cfg.get("id", "unknown"))
SourceId(source_cfg) == IF source_cfg.id = ABSENT THEN "unknown" ELSE source_cfg.id

NewManifest(allow_partial) ==
    [ok |-> "None", exit_code |-> NoExit,
     allow_partial |-> allow_partial,
     fatal_error |-> {},
     sources |-> <<>>,
     summary |-> [sources_ok |-> 0, sources_failed |-> 0, records_total |-> 0]]

\* src_entry as first built (lines 81-92)
NewEntry(source_cfg) ==
    [id |-> SourceId(source_cfg), type |-> source_cfg.type, ok |-> FALSE, records |-> 0]

\* Mutant of exception_payload: the traceback is always included.
exception_payload_always(dbg) == {"type", "message", "traceback"}

\* utils.exception_payload(exc, debug): the keys of the error object.
exception_payload(dbg) ==
    {"type", "message"} \cup (IF dbg THEN {"traceback"} ELSE {})

\* Files written into sources/<dir> by the by-th entry of the source list. An
\* error.json holds exception_payload(exc, debug); keys is empty for data files.
Written(dir, names, by) ==
    { [dir |-> dir, name |-> f, by |-> by, n |-> 0,
       keys |-> IF f = "error.json" THEN exception_payload(debug) ELSE {}] :
      f \in names }

\* write_json(out_dir / "data.json", result.records): the file holds n records.
WrittenData(dir, n, by) ==
    { [w EXCEPT !.n = n] : w \in Written(dir, {"data.json"}, by) }

\* Mutant of ExitCode: the verdict forgets allow_partial.
ExitCodeStrict(allOk, allow_partial) == IF allOk THEN 0 ELSE 1

\* exit_code = 0 if (all_ok or allow_partial) else 1
ExitCode(allOk, allow_partial) == IF allOk \/ allow_partial THEN 0 ELSE 1

\* The summary after a source that failed (lines 113-114 and 122-123).
SummaryFailed(summary) ==
    [summary EXCEPT !.sources_failed = @ + 1]

\* Mutant of SummaryOk: records_total counts sources, not records.
SummaryOkCountsSources(summary, n) ==
    [summary EXCEPT !.sources_ok = @ + 1, !.records_total = @ + 1]

\* The summary after a source that succeeded with n records (lines 110-111).
SummaryOk(summary, n) ==
    [summary EXCEPT !.sources_ok = @ + 1, !.records_total = @ + n]

PipeInit ==
    /\ pc = "cli"
    /\ cfgFile \in CfgFiles
    /\ sourcesCfg \in (IF cfgFile = "ok" THEN SourceLists ELSE {<<>>})
    /\ allowPartialCfg \in BOOLEAN
    /\ allowPartialArg \in BOOLEAN
    /\ debug \in BOOLEAN
    /\ idx = 0
    /\ cur = NoHandler
    /\ manifest = NewManifest(FALSE)
    /\ all_ok = TRUE
    /\ exit_code = NoExit
    /\ disk = {}
    /\ manifestWrites = 0
    /\ builds = 0
    /\ runs = 0
    /\ outcomes = <<>>

\* cli.main: json.loads(config_path.read_text()) raises for a missing or
\* unparseable file; nothing catches it, the interpreter exits with status 1.
CliCrash ==
    /\ pc = "cli"
    /\ cfgFile \in {"missing", "unparseable"}
    /\ pc' = "crashed"
    /\ exit_code' = 1
    /\ UNCHANGED <<outcomes, cfgFile, debug, sourcesCfg, allowPartialCfg, allowPartialArg, notPipe, idx, cur,
                   manifest, all_ok, disk, manifestWrites, builds, runs>>

\* run_pipeline line 39: config.get on a JSON value that is not an object.
PipelineCrash ==
    /\ pc = "cli"
    /\ cfgFile = "not_an_object"
    /\ pc' = "crashed"
    /\ exit_code' = 1
    /\ UNCHANGED <<outcomes, cfgFile, debug, sourcesCfg, allowPartialCfg, allowPartialArg, notPipe, idx, cur,
                   manifest, all_ok, disk, manifestWrites, builds, runs>>

\* run_pipeline lines 36-73 with a list of sources to loop over.
PipelineStart ==
    /\ pc = "cli"
    /\ cfgFile = "ok"
    /\ Len(sourcesCfg) > 0
    /\ manifest' = NewManifest(allowPartialCfg \/ allowPartialArg)
    /\ all_ok' = TRUE
    /\ pc' = "loop"
    /\ UNCHANGED <<outcomes, cfgFile, debug, sourcesCfg, allowPartialCfg, allowPartialArg, notPipe, idx, cur,
                   exit_code, disk, manifestWrites, builds, runs>>

\* run_pipeline lines 69-73: sources missing, empty or not a list.
PipelineFatal ==
    /\ pc = "cli"
    /\ \/ cfgFile = "sources_not_a_list"
       \/ cfgFile = "ok" /\ Len(sourcesCfg) = 0
    /\ manifest' = [NewManifest(allowPartialCfg \/ allowPartialArg)
                      EXCEPT !.ok = "False", !.exit_code = 2,
                             !.fatal_error = {"type", "message"}]
    /\ manifestWrites' = manifestWrites + 1
    /\ all_ok' = TRUE
    /\ exit_code' = 2
    /\ pc' = "done"
    /\ UNCHANGED <<outcomes, cfgFile, debug, sourcesCfg, allowPartialCfg, allowPartialArg, notPipe, idx, cur,
                   disk, builds, runs>>

\* Mutant of AfterBuildError: the exception leaves the loop instead of being
\* recorded against the source.
AfterBuildErrorPropagates(source_cfg) ==
    /\ pc' = "crashed"
    /\ UNCHANGED <<disk, manifest, all_ok, idx, cur>>

\* What the loop does when build_source raises (lines 115-125).
AfterBuildError(source_cfg) ==
    /\ disk' = disk \cup Written(SourceId(source_cfg), {"error.json"}, idx + 1)
    /\ manifest' = [manifest EXCEPT
                      !.sources = Append(@, NewEntry(source_cfg)),
                      !.summary = SummaryFailed(@)]
    /\ all_ok' = FALSE
    /\ idx' = idx + 1
    /\ cur' = NoHandler
    /\ pc' = "loop"

\* One iteration up to build_source (lines 75-102), handler built.
SourceBuild ==
    /\ pc = "loop"
    /\ idx < Len(sourcesCfg)
    /\ build_source(sourcesCfg[idx + 1]) # "SourceError"
    /\ builds' = builds + 1
    /\ cur' = build_source(sourcesCfg[idx + 1])
    /\ pc' = "fetching"
    /\ UNCHANGED <<outcomes, cfgFile, debug, sourcesCfg, allowPartialCfg, allowPartialArg, notPipe, idx,
                   manifest, all_ok, exit_code, disk, manifestWrites, runs>>

\* One iteration whose build_source raises SourceError (lines 75-102, 115-125).
SourceBuildError ==
    /\ pc = "loop"
    /\ idx < Len(sourcesCfg)
    /\ build_source(sourcesCfg[idx + 1]) = "SourceError"
    /\ builds' = builds + 1
    /\ outcomes' = Append(outcomes, [kind |-> "build_error", n |-> 0])
    /\ AfterBuildError(sourcesCfg[idx + 1])
    /\ UNCHANGED <<cfgFile, debug, sourcesCfg, allowPartialCfg, allowPartialArg, notPipe,
                   exit_code, manifestWrites, runs>>

\* Mutant of AfterRun: the loop is left after the first handler that ran.
AfterRunBreaks(source_cfg, result) ==
    LET good == result.ok /\ result.records # NoRecords
        entry == [NewEntry(source_cfg) EXCEPT
                    !.ok = result.ok,
                    !.records = IF good THEN result.records ELSE 0]
    IN /\ disk' = disk \cup Written(SourceId(source_cfg), result.files, idx + 1)
       /\ manifest' = [manifest EXCEPT !.sources = Append(@, entry)]
       /\ all_ok' = (all_ok /\ good)
       /\ idx' = Len(sourcesCfg)
       /\ cur' = NoHandler
       /\ pc' = "loop"

\* What the loop does with the SourceResult (lines 104-114, 125).
AfterRun(source_cfg, result) ==
    LET dir == SourceId(source_cfg)
        good == result.ok /\ result.records # NoRecords
        entry == [NewEntry(source_cfg) EXCEPT
                    !.ok = result.ok,
                    !.records = IF good THEN result.records ELSE 0]
    IN /\ disk' = disk \cup Written(dir, result.files, idx + 1)
                       \cup (IF good THEN WrittenData(dir, result.records, idx + 1) ELSE {})
       /\ manifest' = [manifest EXCEPT
                         !.sources = Append(@, entry),
                         !.summary = IF good THEN SummaryOk(@, result.records)
                                             ELSE SummaryFailed(@)]
       /\ all_ok' = (all_ok /\ good)
       /\ idx' = idx + 1
       /\ cur' = NoHandler
       /\ pc' = "loop"

\* src.run() and the rest of the iteration (lines 103-125).
SourceFetch ==
    /\ pc = "fetching"
    /\ \E outcome \in Outcomes(cur) :
          /\ outcomes' = Append(outcomes, outcome)
          /\ AfterRun(sourcesCfg[idx + 1], SourceRun(cur, outcome))
    /\ runs' = runs + 1
    /\ UNCHANGED <<cfgFile, debug, sourcesCfg, allowPartialCfg, allowPartialArg, notPipe,
                   exit_code, manifestWrites, builds>>

\* run_pipeline lines 127-134.
PipelineFinish ==
    /\ pc = "loop"
    /\ idx = Len(sourcesCfg)
    /\ manifest' = [manifest EXCEPT
                      !.ok = IF all_ok THEN "True" ELSE "False",
                      !.exit_code = ExitCode(all_ok, manifest.allow_partial)]
    /\ manifestWrites' = manifestWrites + 1
    /\ exit_code' = ExitCode(all_ok, manifest.allow_partial)
    /\ pc' = "done"
    /\ UNCHANGED <<outcomes, cfgFile, debug, sourcesCfg, allowPartialCfg, allowPartialArg, notPipe, idx, cur,
                   all_ok, disk, builds, runs>>

\* The other sub-systems are not running.
Idle == [pc |-> "idle"]
RestIdle == sc = Idle /\ wc = Idle /\ dm = Idle /\ dl = Idle

PipeIdle ==
    /\ pc = "idle" /\ cfgFile = "ok" /\ sourcesCfg = <<>> /\ debug = FALSE
    /\ allowPartialCfg = FALSE /\ allowPartialArg = FALSE
    /\ idx = 0 /\ cur = NoHandler /\ manifest = NewManifest(FALSE)
    /\ all_ok = TRUE /\ exit_code = NoExit /\ disk = {}
    /\ manifestWrites = 0 /\ builds = 0 /\ runs = 0 /\ outcomes = <<>>

Init == PipeInit /\ rq = Idle /\ hd = Idle /\ pg = Idle /\ nz = Idle /\ rn = Idle /\ wm = Idle /\ RestIdle

Next ==
    \/ CliCrash
    \/ PipelineCrash
    \/ PipelineStart
    \/ PipelineFatal
    \/ SourceBuild
    \/ SourceBuildError
    \/ SourceFetch
    \/ PipelineFinish

Spec == Init /\ [][Next]_vars

-----------------------------------------------------------------------------
(* One logical HTTP fetch: request_with_retries (scripts/demo_fetch.py and   *)
(* its archived copy, identical) and HttpJsonSource._fetch_with_retries.     *)

\* What one session.request / requests.request call can end in: an exception
\* of the requests library, or a response with a status and a body that is or
\* is not valid JSON.
Replies ==
    { [exc |-> e, status |-> 0, json |-> FALSE] :
          e \in {"Timeout", "ConnectionError", "TooManyRedirects"} }
    \cup { [exc |-> "none", status |-> 200, json |-> j] : j \in BOOLEAN }
    \cup { [exc |-> "none", status |-> st, json |-> FALSE] : st \in {404, 429, 500, 599} }

NoReply == [exc |-> "none", status |-> 0, json |-> FALSE]

RECURSIVE Pow2(_)
Pow2(n) == IF n <= 0 THEN 1 ELSE 2 * Pow2(n - 1)

Min(a, b) == IF a <= b THEN a ELSE b

\* resp.status_code in (429,) or 500 <= resp.status_code <= 599
RetryStatus(status) == status = 429 \/ (500 <= status /\ status <= 599)

\* except (requests.Timeout, requests.ConnectionError)
RetryException(exc) == exc \in {"Timeout", "ConnectionError"}

\* min(2**attempt, 16), the whole seconds of the backoff (the jitter is in [0,1))
Backoff(attempt) == Min(Pow2(attempt), BackoffCap)

\* min(2 ** (attempt - 1), 8)
FetchBackoff(attempt) == Min(Pow2(attempt - 1), FetchBackoffCap)

RqStart(fn, max_retries) ==
    [pc |-> "loop", fn |-> fn, max_retries |-> max_retries,
     attempt |-> IF fn = "request_with_retries" THEN 0 ELSE 1,
     requests |-> 0, retries_used |-> 0, log |-> <<>>, sleeps |-> <<>>,
     outcome |-> "running", error |-> "none", resp |-> NoReply]

RqInit ==
    \E fn \in {"request_with_retries", "_fetch_with_retries"} :
      \E m \in -1..MaxRetries : rq = RqStart(fn, m)

\* The state after one more request was sent and answered by reply.
Sent(r, reply) ==
    [r EXCEPT !.requests = @ + 1, !.log = Append(@, reply)]

\* retries_used += 1; time.sleep(backoff); continue
RetryAfter(r, seconds) ==
    [r EXCEPT !.retries_used = @ + 1, !.sleeps = Append(@, seconds),
              !.attempt = @ + 1]

Return(r, reply) == [r EXCEPT !.pc = "done", !.outcome = "returned", !.resp = reply]
Raise(r, error) == [r EXCEPT !.pc = "done", !.outcome = "raised", !.error = error]

\* One iteration of request_with_retries' loop (lines 127-152) and, when the
\* loop is left by break, the raise of line 154.
RequestStep(r, reply) ==
    IF reply.exc = "none"
    THEN IF RetryStatus(reply.status) /\ r.attempt < r.max_retries
         THEN RetryAfter(Sent(r, reply), Backoff(r.attempt))
         ELSE Return(Sent(r, reply), reply)
    ELSE IF RetryException(reply.exc)
    THEN IF r.attempt < r.max_retries
         THEN RetryAfter(Sent(r, reply), Backoff(r.attempt))
         ELSE Raise(Sent(r, reply), "NETWORK_ERROR")
    ELSE Raise(Sent(r, reply), reply.exc)

RequestAttempt ==
    /\ rq.pc = "loop"
    /\ rq.fn = "request_with_retries"
    /\ rq.attempt <= rq.max_retries
    /\ \E reply \in Replies : rq' = RequestStep(rq, reply)
    /\ UNCHANGED notRq

\* range(0, max_retries + 1) is empty: the loop body never runs, line 154 raises.
RequestNoAttempt ==
    /\ rq.pc = "loop"
    /\ rq.fn = "request_with_retries"
    /\ rq.attempt > rq.max_retries
    /\ rq' = Raise(rq, "NETWORK_ERROR")
    /\ UNCHANGED notRq

\* The exception one attempt of _fetch_with_retries ends in ("none": it returns
\* resp.json()): raise_for_status raises HTTPError for 4xx/5xx, invalid JSON is
\* turned into ValueError.
FetchException(reply) ==
    IF reply.exc # "none" THEN reply.exc
    ELSE IF 400 <= reply.status /\ reply.status < 600 THEN "HTTPError"
    ELSE IF ~reply.json THEN "ValueError"
    ELSE "none"

\* last_exc = exc; time.sleep(...); continue
FetchRetryAfter(r, exc, seconds) ==
    [r EXCEPT !.error = exc, !.sleeps = Append(@, seconds), !.attempt = @ + 1]

\* One iteration of _fetch_with_retries' loop (lines 62-82) and, when the loop
\* is left by break, the raise of line 85.
FetchStep(r, reply) ==
    IF FetchException(reply) = "none"
    THEN Return(Sent(r, reply), reply)
    ELSE IF r.attempt < r.max_retries
         THEN FetchRetryAfter(Sent(r, reply), FetchException(reply),
                              FetchBackoff(r.attempt))
         ELSE Raise(Sent(r, reply), FetchException(reply))

FetchAttempt ==
    /\ rq.pc = "loop"
    /\ rq.fn = "_fetch_with_retries"
    /\ rq.attempt <= rq.max_retries
    /\ \E reply \in Replies : rq' = FetchStep(rq, reply)
    /\ UNCHANGED notRq

\* range(1, max_retries + 1) is empty: last_exc is still None at line 84.
FetchNoAttempt ==
    /\ rq.pc = "loop"
    /\ rq.fn = "_fetch_with_retries"
    /\ rq.attempt > rq.max_retries
    /\ rq' = Raise(rq, "AssertionError")
    /\ UNCHANGED notRq

InitRetry == PipeIdle /\ RqInit /\ hd = Idle /\ pg = Idle /\ nz = Idle /\ rn = Idle /\ wm = Idle /\ RestIdle

NextRetry ==
    \/ RequestAttempt
    \/ RequestNoAttempt
    \/ FetchAttempt
    \/ FetchNoAttempt

SpecRetry == InitRetry /\ [][NextRetry]_vars

-----------------------------------------------------------------------------
(* The classifier and parser of a fetch handler, scripts/demo_fetch.py:      *)
(* handler_worldbank_wgi, handler_usgs_mrds, handler_onegeology_wms share    *)
(* the steps detect_auth_required, looks_like_html, status >= 400, parse.    *)

Handlers == {"worldbank_wgi", "usgs_mrds", "onegeology_wms"}

\* Content-Type headers the server may send (ABSENT: no header).
ContentTypes ==
    {ABSENT, "application/json", "text/html", "Text/HTML; charset=UTF-8",
     "application/xhtml+xml"}

\* (content_type or "").lower()
CtLower(ct) ==
    IF ct = ABSENT THEN ""
    ELSE IF ct = "Text/HTML; charset=UTF-8" THEN "text/html; charset=utf-8"
    ELSE ct

\* "text/html" in ct or "application/xhtml" in ct, for the lower-cased headers above
CtSaysHtml(lc) ==
    lc \in {"text/html", "text/html; charset=utf-8", "application/xhtml+xml"}

\* Bodies, by what the classifier and the parser can see of them:
\*   hintEnd  end offset of the first match of (login|sign in|access denied),
\*            any case, in the decoded body; 0 when there is none
\*   doctype  the stripped body starts with "<!doctype html", any case
\*   htmlEnd  end offset of the first "<html", any case, in the stripped body;
\*            0 when there is none
\*   parses   the handler's format parser accepts the body
Bodies ==
    [hintEnd : {0, 5, AuthWindow, AuthWindow + 1},
     doctype : BOOLEAN,
     htmlEnd : {0, 5, HtmlWindow, HtmlWindow + 1},
     parses  : BOOLEAN]

Responses == [status : {200, 401, 403, 404, 503}, ct : ContentTypes, body : Bodies]

\* Mutant of detect_auth_required: only the status is looked at.
detect_auth_required_status_only(resp) == resp.status \in {401, 403}

\* detect_auth_required(resp, body)
detect_auth_required(resp) ==
    \/ resp.status \in {401, 403}
    \/ resp.body.hintEnd # 0 /\ resp.body.hintEnd <= AuthWindow

\* Mutant of looks_like_html: the Content-Type header is not consulted.
looks_like_html_body_only(ct, body) ==
    \/ body.doctype
    \/ body.htmlEnd # 0 /\ body.htmlEnd <= HtmlWindow

\* looks_like_html(content_type, body)
looks_like_html(ct, body) ==
    \/ CtSaysHtml(CtLower(ct))
    \/ body.doctype
    \/ body.htmlEnd # 0 /\ body.htmlEnd <= HtmlWindow

HdStart(h, resp) ==
    [pc |-> "auth", handler |-> h, resp |-> resp,
     parsed |-> FALSE, code |-> "none", steps |-> <<>>]

HdInit == \E h \in Handlers : \E resp \in Responses : hd = HdStart(h, resp)

HdFail(code) == [hd EXCEPT !.pc = "raised", !.code = code, !.steps = Append(@, hd.pc)]
HdGo(next) == [hd EXCEPT !.pc = next, !.steps = Append(@, hd.pc)]

\* if detect_auth_required(resp, body): raise AUTH_REQUIRED
CheckAuth ==
    /\ hd.pc = "auth"
    /\ hd' = IF detect_auth_required(hd.resp) THEN HdFail("AUTH_REQUIRED")
             ELSE HdGo("html")
    /\ UNCHANGED notHd

\* if looks_like_html(ct, body): raise UNEXPECTED_CONTENT_TYPE
CheckHtml ==
    /\ hd.pc = "html"
    /\ hd' = IF looks_like_html(hd.resp.ct, hd.resp.body)
             THEN HdFail("UNEXPECTED_CONTENT_TYPE")
             ELSE HdGo("status")
    /\ UNCHANGED notHd

\* if resp.status_code >= 400: raise HTTP_ERROR
CheckStatus ==
    /\ hd.pc = "status"
    /\ hd' = IF hd.resp.status >= 400 THEN HdFail("HTTP_ERROR") ELSE HdGo("parse")
    /\ UNCHANGED notHd

\* resp.json() / pd.read_csv / ET.fromstring: PARSE_ERROR when it raises
Parse ==
    /\ hd.pc = "parse"
    /\ hd' = IF hd.resp.body.parses
             THEN [HdGo("returned") EXCEPT !.parsed = TRUE]
             ELSE [HdFail("PARSE_ERROR") EXCEPT !.parsed = TRUE]
    /\ UNCHANGED notHd

InitHandler == PipeIdle /\ rq = Idle /\ HdInit /\ pg = Idle /\ nz = Idle /\ rn = Idle /\ wm = Idle /\ RestIdle

NextHandler ==
    \/ CheckAuth
    \/ CheckHtml
    \/ CheckStatus
    \/ Parse

SpecHandler == InitHandler /\ [][NextHandler]_vars

-----------------------------------------------------------------------------
(* The paginated handler: handler_worldbank_wgi of the archived demo_fetch.py *)

NoPages == -1     \* meta0 has no usable "pages" (absent, or int() raises)

Max(a, b) == IF a >= b THEN a ELSE b

\* per_page = max(50, min(int(limit), 1000))
PerPage(limit) == Max(PerPageMin, Min(limit, PerPageMax))

\* What one page request ends in: request_with_retries raises, the response is
\* rejected by the classifier / parser / schema check, or a page [meta, data]
\* with len(data) = size, meta["pages"] = pages and `retries` retries used.
PageErrors ==
    {"NETWORK_ERROR", "AUTH_REQUIRED", "UNEXPECTED_CONTENT_TYPE", "HTTP_ERROR",
     "PARSE_ERROR", "SCHEMA_ERROR"}

PageReplies ==
    { [kind |-> "error", code |-> c, size |-> 0, pages |-> NoPages, retries |-> 0] :
          c \in PageErrors }
    \cup { [kind |-> "page", code |-> "none", size |-> n, pages |-> m, retries |-> r] :
              n \in 0..MaxPageSize, m \in {NoPages, 2, 3}, r \in {0, 1} }

PgStart(limit) ==
    [pc |-> "loop", limit |-> limit, per_page |-> PerPage(limit), page |-> 1,
     pages_fetched |-> 0, total_retries |-> 0, collected |-> 0, log |-> <<>>,
     code |-> "none", records |-> 0, meta |-> [retries_used |-> 0, pages_fetched |-> 0]]

PgInit == \E limit \in -1..MaxLimit : pg = PgStart(limit)

\* Mutant of LastPage: the last page is passed before the loop stops.
LastPageOffByOne(page, pages) == pages # NoPages /\ page > pages

\* pages_int is not None and page >= pages_int
LastPage(page, pages) == pages # NoPages /\ page >= pages

\* Mutant of SliceLen: the collected records are returned uncut.
SliceLenUncut(n, limit) == n

\* collected[:limit], as a length
SliceLen(n, limit) == IF limit >= 0 THEN Min(n, limit) ELSE Max(n + limit, 0)

\* Mutant of AddRetries: only the retries of the last page are kept.
KeepLastRetries(total_retries, retries_used) == retries_used

\* total_retries += retries_used
AddRetries(total_retries, retries_used) == total_retries + retries_used

\* One iteration of the while loop (lines 191-274).
PageStep(g, reply) ==
    LET asked == [g EXCEPT !.log = Append(@, [page |-> g.page, reply |-> reply])]
    IN IF reply.kind = "error" /\ reply.code = "NETWORK_ERROR"
       THEN [asked EXCEPT !.pc = "raised", !.code = reply.code]
       ELSE LET got == [asked EXCEPT !.total_retries = AddRetries(@, reply.retries),
                                     !.pages_fetched = @ + 1]
            IN IF reply.kind = "error"
               THEN [got EXCEPT !.pc = "raised", !.code = reply.code]
               ELSE LET more == [got EXCEPT !.collected = @ + reply.size]
                    IN IF reply.size = 0 \/ LastPage(g.page, reply.pages)
                       THEN [more EXCEPT !.pc = "break"]
                       ELSE [more EXCEPT !.page = @ + 1]

PageFetch ==
    /\ pg.pc = "loop"
    /\ pg.collected < pg.limit
    /\ \E reply \in PageReplies : pg' = PageStep(pg, reply)
    /\ UNCHANGED notPg

\* Lines 276-287, reached by break or by the loop condition.
PagedReturn ==
    /\ \/ pg.pc = "break"
       \/ pg.pc = "loop" /\ ~(pg.collected < pg.limit)
    /\ pg' = [pg EXCEPT !.pc = "returned",
                        !.records = SliceLen(pg.collected, pg.limit),
                        !.meta = [retries_used |-> pg.total_retries,
                                  pages_fetched |-> pg.pages_fetched]]
    /\ UNCHANGED notPg

InitPaged == PipeIdle /\ rq = Idle /\ hd = Idle /\ PgInit /\ nz = Idle /\ rn = Idle /\ wm = Idle /\ RestIdle

NextPaged ==
    \/ PageFetch
    \/ PagedReturn

SpecPaged == InitPaged /\ [][NextPaged]_vars

\* The handler is straight-line code around a loop: it keeps taking steps until
\* it returns or raises.
SpecPagedLive == SpecPaged /\ WF_vars(NextPaged)

-----------------------------------------------------------------------------
(* week1_ingestion/sources/extract.py *)

\* JSON values. A list holds elements: numbers, nulls, or objects (told apart by
\* num). A dict is kept flat: d maps each path of keys that ends in a leaf to
\* that leaf; the keys on the way are the nested dicts.
Elem(t, k) == [t |-> t, num |-> k]
JNull == [t |-> "null", num |-> 0, list |-> <<>>, d |-> <<>>]
JNum(k) == [t |-> "num", num |-> k, list |-> <<>>, d |-> <<>>]
JList(l) == [t |-> "list", num |-> 0, list |-> l, d |-> <<>>]
JDict(f) == [t |-> "dict", num |-> 0, list |-> <<>>, d |-> f]

\* The list of length n found at the k-th leaf: n distinct numbers.
ListAt(k, n) == JList([j \in 1..n |-> Elem("num", 10 * k + j)])

\* What a leaf key of a dict payload holds: nothing (the key is absent), a
\* number, or a list of length n >= 0.
KeyAbsent == -2
KeyNumber == -1
LeafChoices == {KeyAbsent, KeyNumber} \cup (0..MaxLen)
LeafValue(k, c) == IF c = KeyNumber THEN JNum(k) ELSE ListAt(k, c)

LeafPaths == << <<"hourly", "time">>, <<"hourly", "temp">>, <<"ids">> >>
LeafIndex(q) == CHOOSE k \in 1..3 : LeafPaths[k] = q

\* {"hourly": {"time": ..., "temp": ...}, "ids": ...} with any leaf absent.
DictPayloads ==
    { JDict([q \in {LeafPaths[k] : k \in {i \in 1..3 : c[i] # KeyAbsent}} |->
                LeafValue(LeafIndex(q), c[LeafIndex(q)])]) :
      c \in [1..3 -> LeafChoices] }

Elements == {Elem("num", 7), Elem("dict", 1), Elem("dict", 2), Elem("null", 0)}
ListPayloads == { JList(l) : l \in UNION { [1..n -> Elements] : n \in 0..MaxLen } }
Payloads == DictPayloads \cup ListPayloads \cup {JNum(5), JNull}

\* path.split("."): dotted paths are kept as their sequences of parts; "" is <<>>.
RecordPaths ==
    { <<>>, <<"hourly", "time">>, <<"ids">>, <<"hourly">>, <<"nope">>,
      <<"hourly", "time", "x">> }
ValuePaths == { <<"hourly", "temp">>, <<"ids">>, <<"hourly">>, <<"nope">> }
ValueNames == {"x", "y"}

\* extract_cfg: None, or {"record_path": ..., "value_paths": {...}}
NoExtract == [has |-> FALSE, record_path |-> <<>>, value_paths |-> <<>>]
ExtractCfgs ==
    {NoExtract}
    \cup { [has |-> TRUE, record_path |-> rp, value_paths |-> vp] :
              rp \in RecordPaths,
              vp \in UNION { [names -> ValuePaths] : names \in SUBSET ValueNames } }

\* `part in cur` for a dict
HasKey(node, part) == \E q \in DOMAIN node.d : q[1] = part

Drop1(q) == [i \in 1..(Len(q) - 1) |-> q[i + 1]]

\* cur[part] for a dict that has the key
Child(node, part) ==
    IF <<part>> \in DOMAIN node.d THEN node.d[<<part>>]
    ELSE JDict([r \in {Drop1(q) : q \in {x \in DOMAIN node.d : x[1] = part}} |->
                   node.d[<<part>> \o r]])

\* _get_by_dotted_path(payload, path)
RECURSIVE Walk(_, _)
Walk(node, parts) ==
    IF parts = <<>> THEN node
    ELSE IF node.t = "dict" /\ HasKey(node, parts[1])
         THEN Walk(Child(node, parts[1]), Drop1(parts))
         ELSE JNull

get_by_dotted_path(payload, path) == Walk(payload, path)

\* Output records. A record made by the record_path branch carries its fields;
\* the fallback branch passes a dict element or the dict payload through, or
\* wraps a value as {"value": ...}.
ZipRecord(fields) == [kind |-> "fields", elem |-> Elem("null", 0), fields |-> fields]
ItemRecord(e) == [kind |-> "item", elem |-> e, fields |-> <<>>]
WrapRecord(e) == [kind |-> "wrapped", elem |-> e, fields |-> <<>>]
PayloadRecord == [kind |-> "payload", elem |-> Elem("null", 0), fields |-> <<>>]

NzReturned(records) == [outcome |-> "returned", error |-> "none", records |-> records]
NzRaised(error) == [outcome |-> "raised", error |-> error, records |-> <<>>]

\* Mutant of LengthMismatch: only a value list shorter than the base is refused,
\* a longer one is cut to the base.
LengthMismatchShortOnly(n, value_lists) ==
    \E k \in DOMAIN value_lists : Len(value_lists[k].list) < n

\* lines 44-47: some value list has a length other than n
LengthMismatch(n, value_lists) ==
    \E k \in DOMAIN value_lists : Len(value_lists[k].list) # n

\* lines 49-54: rec = {"_index": i, "value": base[i]}; rec[k] = v[i]
ZipRecords(base, value_lists) ==
    [j \in 1..Len(base.list) |->
        ZipRecord([k \in DOMAIN value_lists |-> value_lists[k].list[j]]
                  @@ ("_index" :> Elem("num", j - 1))
                  @@ ("value" :> base.list[j]))]

\* Mutant of Fallback: every element of a list payload is wrapped, dicts too.
FallbackWrapAll(payload) ==
    IF payload.t = "list"
    THEN NzReturned([j \in 1..Len(payload.list) |-> WrapRecord(payload.list[j])])
    ELSE IF payload.t = "dict" THEN NzReturned(<<PayloadRecord>>)
    ELSE NzReturned(<<WrapRecord(Elem(payload.t, payload.num))>>)

\* lines 57-68
Fallback(payload) ==
    IF payload.t = "list"
    THEN NzReturned([j \in 1..Len(payload.list) |->
                       IF payload.list[j].t = "dict" THEN ItemRecord(payload.list[j])
                       ELSE WrapRecord(payload.list[j])])
    ELSE IF payload.t = "dict" THEN NzReturned(<<PayloadRecord>>)
    ELSE NzReturned(<<WrapRecord(Elem(payload.t, payload.num))>>)

\* normalize_to_records(payload, extract_cfg)
normalize_to_records(payload, cfg) ==
    IF cfg.has /\ cfg.record_path # <<>>
    THEN LET base == get_by_dotted_path(payload, cfg.record_path)
             value_lists == [k \in DOMAIN cfg.value_paths |->
                                get_by_dotted_path(payload, cfg.value_paths[k])]
         IN IF base.t # "list" THEN NzRaised("ValueError")
            ELSE IF \E k \in DOMAIN value_lists : value_lists[k].t # "list"
            THEN NzRaised("ValueError")
            ELSE IF LengthMismatch(Len(base.list), value_lists)
            THEN NzRaised("ValueError")
            ELSE NzReturned(ZipRecords(base, value_lists))
    ELSE Fallback(payload)

NzStart(payload, cfg) ==
    [pc |-> "call", payload |-> payload, cfg |-> cfg, result |-> NzRaised("none")]

NzInit == \E payload \in Payloads : \E cfg \in ExtractCfgs : nz = NzStart(payload, cfg)

\* A call that takes the record_path branch.
NormalizeExtract ==
    /\ nz.pc = "call"
    /\ nz.cfg.has /\ nz.cfg.record_path # <<>>
    /\ nz' = [nz EXCEPT !.pc = "done",
                        !.result = normalize_to_records(nz.payload, nz.cfg)]
    /\ UNCHANGED notNz

\* A call without extract_cfg or without record_path.
NormalizeFallback ==
    /\ nz.pc = "call"
    /\ ~(nz.cfg.has /\ nz.cfg.record_path # <<>>)
    /\ nz' = [nz EXCEPT !.pc = "done",
                        !.result = normalize_to_records(nz.payload, nz.cfg)]
    /\ UNCHANGED notNz

InitNormalize == PipeIdle /\ rq = Idle /\ hd = Idle /\ pg = Idle /\ NzInit /\ rn = Idle /\ wm = Idle /\ RestIdle

NextNormalize ==
    \/ NormalizeExtract
    \/ NormalizeFallback

SpecNormalize == InitNormalize /\ [][NextNormalize]_vars

-----------------------------------------------------------------------------
(* Two invocations of run_pipeline with the same config and the same         *)
(* out_root, one after the other or overlapping (pipeline.py, utils.py).     *)

NoRunId == -1

\* Descriptors the two runs loop over.
RunSourceCfgs ==
    { [id |-> "a",    type |-> "http_json", target |-> TRUE],
      [id |-> ABSENT, type |-> "file_json", target |-> TRUE] }

\* The config file: its top-level keys in file order, run.allow_partial and the
\* source list.
RunConfigs ==
    { [key_order |-> o, allow_partial |-> ap, sources |-> l] :
        o \in { <<"run", "sources">>, <<"sources", "run">> },
        ap \in BOOLEAN,
        l \in UNION { [1..n -> RunSourceCfgs] : n \in 0..MaxSources } }

\* What the i-th source deterministically does whenever it is fetched.
RunWorlds(config) ==
    [1..Len(config.sources) ->
        {[kind |-> "fetch_error", n |-> 0]}
        \cup {[kind |-> "records", n |-> k] : k \in 0..MaxRecords}]

\* Mutant of sha256_json: the digest also covers the time of the run.
sha256_json_with_time(config) ==
    [allow_partial |-> config.allow_partial, sources |-> config.sources,
     salt |-> rn.clock]

\* utils.sha256_json: the digest of the canonical dump (sort_keys = True), which
\* does not depend on the order of the keys in the file.
sha256_json(config) ==
    [allow_partial |-> config.allow_partial, sources |-> config.sources,
     salt |-> 0]

\* utils.utc_run_id(): strftime("%Y%m%d_%H%M%SZ"), the clock cut to the second.
utc_run_id == rn.clock

NewRun ==
    [pc |-> "idle", run_id |-> NoRunId, idx |-> 0, all_ok |-> TRUE,
     started_at |-> NoRunId, ended_at |-> NoRunId,
     config_sha256 |-> [allow_partial |-> FALSE, sources |-> <<>>, salt |-> NoRunId],
     manifest |-> NewManifest(FALSE)]

RnInit ==
    \E config \in RunConfigs : \E world \in RunWorlds(config) :
        rn = [pc |-> "runs", clock |-> 0, config |-> config, world |-> world,
              run |-> [r \in 1..2 |-> NewRun], fs |-> {}]

\* Files of run r: run_dir is out_root/run_<run_id>; dir is "" for the manifest.
RunWritten(r, dir, names) ==
    { [run_dir |-> rn.run[r].run_id, dir |-> dir, name |-> f, by |-> r] :
      f \in names }

\* One second passes.
Tick ==
    /\ rn.pc = "runs"
    /\ rn.clock < MaxClock
    /\ rn' = [rn EXCEPT !.clock = @ + 1]
    /\ UNCHANGED notRn

\* run_pipeline lines 36-66 and 68-69 for a non-empty source list.
RunStart ==
    /\ rn.pc = "runs"
    /\ \E r \in 1..2 :
          /\ rn.run[r].pc = "idle"
          /\ Len(rn.config.sources) > 0
          /\ rn' = [rn EXCEPT !.run[r] =
                      [@ EXCEPT !.pc = "loop", !.run_id = utc_run_id,
                                !.started_at = rn.clock,
                                !.config_sha256 = sha256_json(rn.config),
                                !.manifest = NewManifest(rn.config.allow_partial)]]
    /\ UNCHANGED notRn

\* run_pipeline lines 36-73 for an empty source list.
RunFatal ==
    /\ rn.pc = "runs"
    /\ \E r \in 1..2 :
          /\ rn.run[r].pc = "idle"
          /\ Len(rn.config.sources) = 0
          /\ rn' = [rn EXCEPT
                      !.run[r] =
                         [@ EXCEPT !.pc = "done", !.run_id = utc_run_id,
                                   !.started_at = rn.clock,
                                   !.config_sha256 = sha256_json(rn.config),
                                   !.manifest =
                                       [NewManifest(rn.config.allow_partial)
                                          EXCEPT !.ok = "False", !.exit_code = 2,
                                                 !.fatal_error = {"type", "message"}]],
                      !.fs = @ \cup { [run_dir |-> utc_run_id, dir |-> "",
                                       name |-> "manifest.json", by |-> r] }]
    /\ UNCHANGED notRn

\* One iteration of the loop of run r (lines 75-125).
RunSource ==
    /\ rn.pc = "runs"
    /\ \E r \in 1..2 :
          LET run == rn.run[r]
              i == run.idx + 1
              source_cfg == rn.config.sources[i]
              built == build_source(source_cfg) # "SourceError"
              result == SourceRun(build_source(source_cfg), rn.world[i])
              good == built /\ result.ok /\ result.records # NoRecords
              files == IF ~built THEN {"error.json"}
                       ELSE result.files \cup (IF good THEN {"data.json"} ELSE {})
              entry == [NewEntry(source_cfg) EXCEPT
                          !.ok = good,
                          !.records = IF good THEN result.records ELSE 0]
          IN /\ run.pc = "loop"
             /\ run.idx < Len(rn.config.sources)
             /\ rn' = [rn EXCEPT
                         !.run[r] =
                            [@ EXCEPT
                               !.idx = i,
                               !.all_ok = run.all_ok /\ good,
                               !.manifest =
                                  [@ EXCEPT
                                     !.sources = Append(@, entry),
                                     !.summary =
                                        IF good THEN SummaryOk(@, result.records)
                                        ELSE SummaryFailed(@)]],
                         !.fs = @ \cup RunWritten(r, SourceId(source_cfg), files)]
    /\ UNCHANGED notRn

\* run_pipeline lines 127-134 of run r.
RunFinish ==
    /\ rn.pc = "runs"
    /\ \E r \in 1..2 :
          LET run == rn.run[r]
          IN /\ run.pc = "loop"
             /\ run.idx = Len(rn.config.sources)
             /\ rn' = [rn EXCEPT
                         !.run[r] =
                            [@ EXCEPT
                               !.pc = "done",
                               !.ended_at = rn.clock,
                               !.manifest =
                                  [@ EXCEPT
                                     !.ok = IF run.all_ok THEN "True" ELSE "False",
                                     !.exit_code =
                                        ExitCode(run.all_ok, run.manifest.allow_partial)]],
                         !.fs = @ \cup RunWritten(r, "", {"manifest.json"})]
    /\ UNCHANGED notRn

InitRuns ==
    PipeIdle /\ rq = Idle /\ hd = Idle /\ pg = Idle /\ nz = Idle /\ RnInit /\ wm = Idle /\ RestIdle

NextRuns ==
    \/ Tick
    \/ RunStart
    \/ RunFatal
    \/ RunSource
    \/ RunFinish

SpecRuns == InitRuns /\ [][NextRuns]_vars

-----------------------------------------------------------------------------
(* Layer extraction of handler_onegeology_wms (scripts/demo_fetch.py lines   *)
(* 358-368; archived copy lines 440-501).                                    *)

\* A Name or Title child of a Layer: no such element, an element without text,
\* an element with only white space, an element with text.
LayerTexts == {"absent", "empty", "blank", "text"}

\* (el.text or "").strip() if el is not None else "": whether anything is left.
StripNonEmpty(el) == el = "text"

\* root.findall(".//{*}Layer"): the Layer elements in document order.
WmsDocs ==
    UNION { [1..n -> [name : LayerTexts, title : LayerTexts]] : n \in 0..MaxLayers }

\* {"layer_name": name or None, "title": title or None} of the k-th Layer
LayerRecord(doc, k) ==
    [layer |-> k,
     layer_name |-> IF StripNonEmpty(doc[k].name) THEN "text" ELSE "None",
     title |-> IF StripNonEmpty(doc[k].title) THEN "text" ELSE "None"]

\* if not name and not title: continue
SkipLayer(layer) == ~StripNonEmpty(layer.name) /\ ~StripNonEmpty(layer.title)

WmStart(doc, limit) ==
    [pc |-> "layers", doc |-> doc, limit |-> limit, k |-> 0, records |-> <<>>]

WmInit == \E doc \in WmsDocs : \E limit \in -1..MaxLimit : wm = WmStart(doc, limit)

\* One iteration of `for layer in root.findall(...)`, up to its continue, its
\* break or its end.
WmsLayer ==
    /\ wm.pc = "layers"
    /\ wm.k < Len(wm.doc)
    /\ LET k == wm.k + 1
           records == IF SkipLayer(wm.doc[k]) THEN wm.records
                      ELSE Append(wm.records, LayerRecord(wm.doc, k))
       IN wm' = [wm EXCEPT
                   !.k = k,
                   !.records = records,
                   !.pc = IF ~SkipLayer(wm.doc[k]) /\ Len(records) >= wm.limit
                          THEN "returned" ELSE "layers"]
    /\ UNCHANGED notWm

\* The loop runs out of Layer elements; return records, meta.
WmsReturn ==
    /\ wm.pc = "layers"
    /\ wm.k = Len(wm.doc)
    /\ wm' = [wm EXCEPT !.pc = "returned"]
    /\ UNCHANGED notWm

InitWms ==
    PipeIdle /\ rq = Idle /\ hd = Idle /\ pg = Idle /\ nz = Idle /\ rn = Idle /\ WmInit /\ RestIdle

NextWms ==
    \/ WmsLayer
    \/ WmsReturn

SpecWms == InitWms /\ [][NextWms]_vars

-----------------------------------------------------------------------------
(* handler_worldbank_wgi after resp.json(): schema check and truncation      *)
(* (scripts/demo_fetch.py lines 209-232).                                    *)

\* Parsed payloads by shape: a JSON value that is not a list, or a list of
\* len elements whose second element (when there is one) is a list of rows
\* data items (second = "list") or something else.
ScPayloads ==
    { [t |-> "dict", len |-> 0, second |-> "none", rows |-> 0] }
    \cup { [t |-> "list", len |-> n, second |-> "none", rows |-> 0] : n \in 0..1 }
    \cup { [t |-> "list", len |-> n, second |-> "dict", rows |-> 0] : n \in 2..3 }
    \cup { [t |-> "list", len |-> n, second |-> "list", rows |-> k] :
              n \in 2..3, k \in 0..MaxLen }

\* not isinstance(payload, list) or len(payload) < 2 or not isinstance(payload[1], list)
SchemaRejected(payload) ==
    payload.t # "list" \/ payload.len < 2 \/ payload.second # "list"

\* len(df.head(limit)): the first limit rows, or all but the last -limit rows
HeadLen(n, limit) == IF limit >= 0 THEN Min(n, limit) ELSE Max(n + limit, 0)

ScStart(payload, limit) ==
    [pc |-> "schema", payload |-> payload, limit |-> limit, code |-> "none",
     records |-> 0, records_available |-> 0]

ScInit ==
    \E payload \in ScPayloads : \E limit \in -1..MaxLimit : sc = ScStart(payload, limit)

\* lines 209-217
SchemaCheck ==
    /\ sc.pc = "schema"
    /\ sc' = IF SchemaRejected(sc.payload)
             THEN [sc EXCEPT !.pc = "raised", !.code = "SCHEMA_ERROR"]
             ELSE [sc EXCEPT !.pc = "frame"]
    /\ UNCHANGED notSc

\* lines 219-232
Truncate ==
    /\ sc.pc = "frame"
    /\ sc' = [sc EXCEPT !.pc = "returned",
                        !.records = HeadLen(sc.payload.rows, sc.limit),
                        !.records_available = sc.payload.rows]
    /\ UNCHANGED notSc

InitSchema ==
    /\ PipeIdle /\ rq = Idle /\ hd = Idle /\ pg = Idle /\ nz = Idle /\ rn = Idle
    /\ wm = Idle /\ ScInit /\ wc = Idle /\ dm = Idle /\ dl = Idle

NextSchema ==
    \/ SchemaCheck
    \/ Truncate

SpecSchema == InitSchema /\ [][NextSchema]_vars

-----------------------------------------------------------------------------
(* handler_onegeology_wms over its URLs: the archived handler with its list  *)
(* of candidates (archive demo_fetch.py lines 362-518) and the current one    *)
(* with its single URL (scripts/demo_fetch.py lines 304-377).                 *)

WmsVariants == {"archive", "scripts"}

\* FetchError codes one candidate can end in before the document is looked at.
WmsFetchErrors ==
    {"NETWORK_ERROR", "AUTH_REQUIRED", "UNEXPECTED_CONTENT_TYPE", "HTTP_ERROR",
     "PARSE_ERROR"}

\* What requesting one URL ends in: a FetchError, an exception that is not a
\* FetchError (session.request raises something other than Timeout or
\* ConnectionError, e.g. MissingSchema for a URL without scheme), or a
\* well-formed XML document: whether its root tag contains "wms_capabilities",
\* whether it has a Capability element, and its number of named layers.
WmsReplies ==
    { [kind |-> "fetch_error", code |-> c, root_wms |-> FALSE, capability |-> FALSE,
       layers |-> 0] : c \in WmsFetchErrors }
    \cup { [kind |-> "exception", code |-> c, root_wms |-> FALSE, capability |-> FALSE,
            layers |-> 0] : c \in {"MissingSchema", "TooManyRedirects"} }
    \cup { [kind |-> "xml", code |-> "none", root_wms |-> r, capability |-> c,
            layers |-> n] : r \in BOOLEAN, c \in BOOLEAN, n \in 0..MaxLayers }

\* candidates: the environment override when set, then base_url + endpoint. The
\* current script has only the environment URL.
Candidates(variant, env_url) ==
    IF variant = "scripts" THEN <<"env">>
    ELSE IF env_url THEN <<"env", "default">> ELSE <<"default">>

\* not ("wms_capabilities" in tag_lower or cap is not None); the current script
\* has no such test.
DocumentRejected(variant, reply) ==
    variant = "archive" /\ ~(reply.root_wms \/ reply.capability)

WcStart(variant, env_url, endpoint) ==
    [pc |-> "start", variant |-> variant, env_url |-> env_url, endpoint |-> endpoint,
     candidates |-> <<>>, log |-> <<>>, last_error |-> "none", code |-> "none",
     records |-> 0]

WcInit ==
    \E variant \in WmsVariants : \E env_url \in BOOLEAN : \E endpoint \in BOOLEAN :
        wc = WcStart(variant, env_url, endpoint)

\* Lines 364-379 (archive) / 305-311 (scripts): the checks before any request.
WmsConfig ==
    /\ wc.pc = "start"
    /\ wc' = IF wc.variant = "archive" /\ ~wc.endpoint
             THEN [wc EXCEPT !.pc = "raised", !.code = "CONFIG_ERROR"]
             ELSE IF wc.variant = "scripts" /\ ~wc.env_url
             THEN [wc EXCEPT !.pc = "raised", !.code = "MISSING_ENV_VAR"]
             ELSE [wc EXCEPT !.pc = "try",
                             !.candidates = Candidates(wc.variant, wc.env_url)]
    /\ UNCHANGED notWc

\* What one candidate's reply does to the call.
CandidateStep(w, reply) ==
    LET asked == [w EXCEPT !.log = Append(@, [url |-> w.candidates[Len(w.log) + 1],
                                              reply |-> reply])]
        code == IF reply.kind = "xml" THEN "SCHEMA_ERROR" ELSE reply.code
        failed == reply.kind # "xml" \/ DocumentRejected(w.variant, reply)
    IN IF ~failed
       THEN [asked EXCEPT !.pc = "returned", !.records = reply.layers]
       ELSE IF reply.kind = "exception" \/ w.variant = "scripts"
       THEN [asked EXCEPT !.pc = "raised", !.code = code]
       ELSE [asked EXCEPT !.last_error = code]

\* One iteration of `for url in candidates` (archive lines 380-515); the whole
\* request-classify-parse sequence of the current script (lines 313-377).
WmsTry ==
    /\ wc.pc = "try"
    /\ Len(wc.log) < Len(wc.candidates)
    /\ \E reply \in WmsReplies : wc' = CandidateStep(wc, reply)
    /\ UNCHANGED notWc

\* Lines 517-518: every candidate raised a FetchError.
WmsExhausted ==
    /\ wc.pc = "try"
    /\ Len(wc.log) = Len(wc.candidates)
    /\ wc' = [wc EXCEPT !.pc = "raised", !.code = wc.last_error]
    /\ UNCHANGED notWc

InitWmsUrls ==
    /\ PipeIdle /\ rq = Idle /\ hd = Idle /\ pg = Idle /\ nz = Idle /\ rn = Idle
    /\ wm = Idle /\ sc = Idle /\ WcInit /\ dm = Idle /\ dl = Idle

NextWmsUrls ==
    \/ WmsConfig
    \/ WmsTry
    \/ WmsExhausted

SpecWmsUrls == InitWmsUrls /\ [][NextWmsUrls]_vars

-----------------------------------------------------------------------------
(* The demo's main over one source, run after run in the fixed directory     *)
(* data/demo/<source_name> (archive demo_fetch.py main, lines 536-670, with   *)
(* the paginated handler_worldbank_wgi, lines 172-287).                       *)

NoFile == -1                  \* records_100.json does not exist

\* How a page request can end the handler: a FetchError that carries a
\* debug_snippet, a FetchError without one (NETWORK_ERROR), or an exception
\* that is not a FetchError.
DemoFailures == {"fetch_error_snippet", "fetch_error", "exception"}

NoMetadata == [status |-> "none", records_written |-> 0, snippet |-> FALSE,
               error |-> "none"]

\* The directory before the first run (nothing written) and main before a run.
DmStart(limit) ==
    [pc |-> "main", run |-> 1, limit |-> limit, page |-> 1, collected |-> 0,
     fetch |-> "none", report |-> <<>>,
     files |-> [records |-> NoFile, snippet |-> FALSE, metadata |-> NoMetadata]]

DmInit == \E limit \in 0..MaxLimit : dm = DmStart(limit)

\* Mutant of FailedRecords: the pages collected before the failure are kept.
FailedRecordsPartial(collected) == collected

\* records as main holds it when the handler raised: the [] of line 618.
FailedRecords(collected) == 0

\* Lines 627-665: the except clauses, then the outputs main always writes.
\* records is the length of main's `records`, fetch how the handler ended.
DemoWrite(d, status, records, fetch) ==
    LET snippet_written == fetch = "fetch_error_snippet"
        exists == d.files.snippet \/ snippet_written
        written == Min(records, d.limit)
        error == IF fetch = "none" THEN "none"
                 ELSE IF fetch = "exception" THEN "UNHANDLED_ERROR" ELSE "FetchError"
    IN [d EXCEPT !.pc = "written", !.fetch = fetch,
                 !.files = [records |-> written, snippet |-> exists,
                            metadata |-> [status |-> status,
                                          records_written |-> written,
                                          snippet |-> exists, error |-> error]],
                 !.report = Append(@, [status |-> status, records_written |-> written])]

\* Lines 599-624: the iteration up to the call of the handler.
DemoSource ==
    /\ dm.pc = "main"
    /\ dm' = [dm EXCEPT !.pc = "handler", !.page = 1, !.collected = 0,
                        !.fetch = "none"]
    /\ UNCHANGED notDm

\* One iteration of `while len(collected) < limit` that ends in `page += 1`.
DemoPage ==
    /\ dm.pc = "handler"
    /\ dm.collected < dm.limit
    /\ \E n \in 1..MaxPageSize :
          dm' = [dm EXCEPT !.collected = @ + n, !.page = @ + 1]
    /\ UNCHANGED notDm

\* The last iteration (an empty page, or the last page by meta.pages) or the
\* loop test failing: the handler returns collected[:limit], main writes.
DemoReturn ==
    /\ dm.pc = "handler"
    /\ \E n \in 0..MaxPageSize :
          /\ n > 0 => dm.collected < dm.limit
          /\ dm' = DemoWrite([dm EXCEPT !.collected = @ + n], "success",
                             Min(dm.collected + n, dm.limit), "none")
    /\ UNCHANGED notDm

\* An iteration whose request or classification raises; main's except clauses
\* and writes follow.
DemoFail ==
    /\ dm.pc = "handler"
    /\ dm.collected < dm.limit
    /\ \E failure \in DemoFailures :
          dm' = DemoWrite(dm, "failed", FailedRecords(dm.collected), failure)
    /\ UNCHANGED notDm

\* The program is started again: a new report, the same directory.
DemoRerun ==
    /\ dm.pc = "written"
    /\ dm.run < MaxRuns
    /\ dm' = [dm EXCEPT !.pc = "main", !.run = @ + 1, !.report = <<>>]
    /\ UNCHANGED notDm

InitDemo ==
    /\ PipeIdle /\ rq = Idle /\ hd = Idle /\ pg = Idle /\ nz = Idle /\ rn = Idle
    /\ wm = Idle /\ sc = Idle /\ wc = Idle /\ DmInit /\ dl = Idle

NextDemo ==
    \/ DemoSource
    \/ DemoPage
    \/ DemoReturn
    \/ DemoFail
    \/ DemoRerun

SpecDemo == InitDemo /\ [][NextDemo]_vars

-----------------------------------------------------------------------------
(* scripts/download_datasets.py: main over one dataset, run after run with    *)
(* the same destination path, and download_file.                              *)

\* What one requests.get attempt ends in: an exception before the destination
\* is opened (connection error, timeout, raise_for_status), an exception while
\* the body is streamed into the opened destination, or the whole transfer.
DlOutcomes == {"http_error", "broken_transfer", "complete"}

\* --retries as argparse accepts it (type=int): negative, zero, positive.
DlRetries == -1..MaxAttempts

DlStart(retries, overwrite) ==
    [pc |-> "main", run |-> 1, retries |-> retries, overwrite |-> overwrite,
     attempt |-> 1, backoff |-> 2, waits |-> <<>>, requests |-> <<>>,
     file |-> "none", downloaded |-> 0, reported |-> "none"]

DlInit ==
    \E retries \in DlRetries : \E overwrite \in BOOLEAN :
        dl = DlStart(retries, overwrite)

\* dest after an attempt: dest.open("wb") truncates it once the status is
\* good, and what was streamed before an exception stays in place.
DestAfter(file, outcome) ==
    IF outcome = "complete" THEN "complete"
    ELSE IF outcome = "broken_transfer" THEN "partial"
    ELSE file

\* main lines 130-132: the destination exists and --overwrite is not given.
DlSkip ==
    /\ dl.pc = "main"
    /\ dl.file # "none" /\ ~dl.overwrite
    /\ dl' = [dl EXCEPT !.pc = "done", !.reported = "skip"]
    /\ UNCHANGED notDl

\* main lines 113-136 up to the call, download_file lines 28-37.
DlBegin ==
    /\ dl.pc = "main"
    /\ ~(dl.file # "none" /\ ~dl.overwrite)
    /\ dl' = [dl EXCEPT !.pc = "download", !.attempt = 1, !.backoff = 2,
                        !.waits = <<>>, !.requests = <<>>]
    /\ UNCHANGED notDl

\* range(1, retries + 1) is empty: download_file returns None, main counts
\* the dataset and prints [ok] (lines 38, 141-142).
DlNoAttempt ==
    /\ dl.pc = "download"
    /\ dl.attempt > dl.retries
    /\ dl' = [dl EXCEPT !.pc = "done", !.downloaded = @ + 1, !.reported = "ok"]
    /\ UNCHANGED notDl

\* One iteration of the loop of download_file (lines 38-54) and, when it
\* returns or raises, the rest of main's iteration (lines 137-142).
DlAttempt ==
    /\ dl.pc = "download"
    /\ dl.attempt <= dl.retries
    /\ \E outcome \in DlOutcomes :
          LET asked == [dl EXCEPT !.requests = Append(@, outcome),
                                  !.file = DestAfter(@, outcome)]
          IN dl' = IF outcome = "complete"
                   THEN [asked EXCEPT !.pc = "done", !.downloaded = @ + 1,
                                      !.reported = "ok"]
                   ELSE IF dl.attempt < dl.retries
                   THEN [asked EXCEPT !.waits = Append(@, dl.backoff),
                                      !.backoff = 2 * @, !.attempt = @ + 1]
                   ELSE [asked EXCEPT !.pc = "done", !.reported = "error"]
    /\ UNCHANGED notDl

\* The program is run again on the same output directory.
DlRerun ==
    /\ dl.pc = "done"
    /\ dl.run < MaxRuns
    /\ \E overwrite \in BOOLEAN :
          dl' = [dl EXCEPT !.pc = "main", !.run = @ + 1, !.overwrite = overwrite,
                           !.downloaded = 0, !.reported = "none"]
    /\ UNCHANGED notDl

InitDownload ==
    /\ PipeIdle /\ rq = Idle /\ hd = Idle /\ pg = Idle /\ nz = Idle /\ rn = Idle
    /\ wm = Idle /\ sc = Idle /\ wc = Idle /\ dm = Idle /\ DlInit

NextDownload ==
    \/ DlSkip
    \/ DlBegin
    \/ DlNoAttempt
    \/ DlAttempt
    \/ DlRerun

SpecDownload == InitDownload /\ [][NextDownload]_vars

-----------------------------------------------------------------------------
(* Claims about the run (specification Spec) *)

Exited == pc \in {"done", "crashed"}
LoopRan == cfgFile = "ok" /\ Len(sourcesCfg) > 0
Failed(o) == o.kind # "records"
NFailed == Cardinality({i \in 1..Len(outcomes) : Failed(outcomes[i])})

\* C1: a failure of any kind in one source never stops the loop: the process
\* never dies inside the loop, the loop always has a next step, every source of
\* the list is attempted and gets its own manifest entry in configuration
\* order, and the run ends with the manifest written.
C1_FailureNeverStopsLoop ==
    /\ pc = "crashed" => builds = 0 /\ outcomes = <<>>
    /\ pc \in {"loop", "fetching"} => ENABLED Next
    /\ pc \in {"loop", "fetching"} =>
          /\ Len(manifest.sources) = idx
          /\ Len(outcomes) = idx
          /\ manifestWrites = 0
    /\ (pc = "done" /\ LoopRan) =>
          /\ Len(outcomes) = Len(sourcesCfg)
          /\ builds = Len(sourcesCfg)
          /\ Len(manifest.sources) = Len(sourcesCfg)
          /\ \A i \in 1..Len(sourcesCfg) :
                /\ manifest.sources[i].id = SourceId(sourcesCfg[i])
                /\ manifest.sources[i].type = sourcesCfg[i].type
                /\ manifest.sources[i].ok = ~Failed(outcomes[i])
          /\ manifestWrites = 1

\* C1 witness: a two-source run in which the first source failed at construction
\* and the second was still fetched and succeeded.
C1_Witness ==
    /\ pc = "done" /\ Len(sourcesCfg) = 2
    /\ outcomes[1].kind = "build_error"
    /\ outcomes[2].kind = "records"
    /\ manifest.sources[2].ok

\* C2: with N sources of which K fail, the summary has sources_ok = N-K and
\* sources_failed = K, and the exit code is 0 iff K = 0 or allow_partial is set
\* by the config or by the flag; otherwise it is 1.
C2_SummaryAndExitCode ==
    (pc = "done" /\ LoopRan) =>
        /\ manifest.summary.sources_failed = NFailed
        /\ manifest.summary.sources_ok = Len(sourcesCfg) - NFailed
        /\ manifest.summary.sources_ok + manifest.summary.sources_failed
              = Len(manifest.sources)
        /\ Len(manifest.sources) = Len(sourcesCfg)
        /\ exit_code \in {0, 1}
        /\ (exit_code = 0) <=> (NFailed = 0 \/ allowPartialCfg \/ allowPartialArg)
        /\ manifest.exit_code = exit_code

\* C2 witness: one of two sources failed, partial results not allowed, exit 1.
C2_Witness ==
    /\ pc = "done" /\ Len(sourcesCfg) = 2 /\ NFailed = 1
    /\ ~allowPartialCfg /\ ~allowPartialArg
    /\ exit_code = 1

\* C3: every invocation writes the manifest exactly once, only after all
\* per-source attempts are over, also on the fatal pre-loop paths (config file
\* missing or not parseable, sources empty or not a list).
C3_ManifestWrittenOnceAlways ==
    /\ Exited => manifestWrites = 1
    /\ manifestWrites > 0 => pc = "done"

\* C4: when the configuration is missing or invalid, or the source list is
\* empty, the run ends with exit code 2 and no per-source attempt is made.
C4_FatalExitsTwo ==
    (Exited /\ ~LoopRan) =>
        /\ exit_code = 2
        /\ builds = 0 /\ runs = 0 /\ disk = {}

-----------------------------------------------------------------------------
(* Claims about one logical fetch (specification SpecRetry) *)

Transient(reply) ==
    \/ reply.exc \in {"Timeout", "ConnectionError"}
    \/ reply.exc = "none" /\ (reply.status = 429 \/ reply.status \in 500..599)
ServerError(reply) == reply.exc = "none" /\ reply.status \in 500..599
AllReplies(P(_)) == \A i \in 1..Len(rq.log) : P(rq.log[i])

\* C5: with max_retries = 4 and a server that answers every request with a 5xx
\* status, request_with_retries performs exactly 5 requests and then raises
\* NETWORK_ERROR; it does not return the last 5xx response.
C5_Always5xxRaisesNetworkError ==
    (/\ rq.pc = "done" /\ rq.fn = "request_with_retries" /\ rq.max_retries = 4
     /\ AllReplies(ServerError)) =>
        /\ rq.requests = 5
        /\ rq.outcome = "raised"
        /\ rq.error = "NETWORK_ERROR"

\* C6: a request is retried only after a timeout, a connection error, a 429 or
\* a 5xx: every reply that was followed by another request of the same logical
\* fetch is one of these (never another 4xx, never a malformed body).
C6_RetryOnlyTransient ==
    rq.pc # "idle" =>
        \A i \in 1..(Len(rq.log) - 1) : Transient(rq.log[i])

\* C7: for every max_retries >= 0 one logical request makes between 1 and
\* max_retries + 1 HTTP requests, exactly max_retries + 1 when every attempt
\* fails transiently, and the returned retries_used is the number of requests
\* minus one; for request_with_retries and for _fetch_with_retries.
C7_AttemptBound ==
    (rq.pc = "done" /\ rq.max_retries >= 0) =>
        /\ 1 <= rq.requests
        /\ rq.requests <= rq.max_retries + 1
        /\ AllReplies(Transient) => rq.requests = rq.max_retries + 1
        /\ (rq.outcome = "returned" /\ rq.fn = "request_with_retries") =>
              rq.retries_used = rq.requests - 1

\* C18: the wait before the retry that follows failed attempt a (counted from
\* 0) is min(2^a, 16) seconds plus a jitter in [0,1): the whole seconds of the
\* successive waits are 1, 2, 4, 8, 16, 16, ..., never above 16, and no wait
\* follows the last allowed attempt; for request_with_retries and for
\* HttpJsonSource._fetch_with_retries.
C18_BackoffSchedule ==
    rq.pc # "idle" =>
        /\ \A i \in 1..Len(rq.sleeps) :
              /\ rq.sleeps[i] = Min(Pow2(i - 1), 16)
              /\ rq.sleeps[i] <= 16
        /\ rq.pc = "loop" => Len(rq.sleeps) = Len(rq.log)
        /\ (rq.pc = "done" /\ Len(rq.log) > 0) => Len(rq.sleeps) = Len(rq.log) - 1

-----------------------------------------------------------------------------
(* Claims about the classifier (specification SpecHandler) *)

HdDone == hd.pc \in {"raised", "returned"}
HtmlOk200 == hd.resp.status = 200 /\ hd.resp.ct = "text/html"
HdAuthHint == hd.resp.body.hintEnd # 0 /\ hd.resp.body.hintEnd <= AuthWindow

\* C8 as stated: a response with status 200 and Content-Type text/html is
\* classified UNEXPECTED_CONTENT_TYPE for every body, never anything else, and
\* the format parser is never run on it.
C8_HtmlAlwaysUnexpectedContentType ==
    (HdDone /\ HtmlOk200) =>
        /\ hd.code = "UNEXPECTED_CONTENT_TYPE"
        /\ ~hd.parsed

\* C8 amended: a response with status 200 and Content-Type text/html is
\* classified UNEXPECTED_CONTENT_TYPE for every body without a login / sign in /
\* access denied match in its first 4000 characters, and AUTH_REQUIRED for a body
\* with one; it is never PARSE_ERROR and the format parser is never run on it.
C8_HtmlUnexpectedUnlessAuthHint ==
    /\ (hd.pc # "idle" /\ HtmlOk200) => ~hd.parsed /\ hd.pc \notin {"parse", "returned"}
    /\ (HdDone /\ HtmlOk200) =>
          hd.code = IF HdAuthHint THEN "AUTH_REQUIRED" ELSE "UNEXPECTED_CONTENT_TYPE"

\* C8 witness: a 200 text/html response whose body the parser would accept and
\* that does not look like HTML by itself, classified UNEXPECTED_CONTENT_TYPE.
C8_Witness ==
    /\ HdDone /\ HtmlOk200
    /\ hd.resp.body.parses /\ ~hd.resp.body.doctype /\ hd.resp.body.htmlEnd = 0
    /\ hd.code = "UNEXPECTED_CONTENT_TYPE"

-----------------------------------------------------------------------------
(* Claims about the paginated handler (specification SpecPaged) *)

PagesAsked == [i \in 1..Len(pg.log) |-> pg.log[i].page]
PageSize(i) == pg.log[i].reply.size
\* The stub of the claim: every answer is a page that reports pages = 3 and
\* carries data.
Stub3 ==
    \A i \in 1..Len(pg.log) :
        /\ pg.log[i].reply.kind = "page"
        /\ pg.log[i].reply.pages = 3
        /\ pg.log[i].reply.size > 0
\* Whether the records of pages 1 and 2 of the stub together reach limit. A page
\* the handler did not ask for holds at least one record (the stub never
\* returns an empty page).
ReachedByPage2 ==
    IF Len(pg.log) >= 2 THEN PageSize(1) + PageSize(2) >= pg.limit
    ELSE IF Len(pg.log) = 1 THEN PageSize(1) + 1 >= pg.limit
    ELSE 2 >= pg.limit

\* C9 as stated: with pages = 3 reported and data on every page, the handler
\* requests exactly pages 1, 2, 3 whenever limit exceeds the records available,
\* and exactly pages 1 and 2 when the records of pages 1 and 2 together reach
\* limit. (Stated for a positive limit.)
C9_ThreePagesOrStopOnPage2 ==
    (pg.pc = "returned" /\ Stub3 /\ pg.limit >= 1) =>
        /\ pg.limit > pg.collected => PagesAsked = <<1, 2, 3>>
        /\ ReachedByPage2 => PagesAsked = <<1, 2>>

\* C9 amended: ... and exactly pages 1 and 2 when the records of page 1 alone
\* do not reach limit but those of pages 1 and 2 together do (when page 1 alone
\* reaches limit only page 1 is requested, and no page when limit <= 0).
C9_ThreePagesOrStopWhereLimitReached ==
    (pg.pc = "returned" /\ Stub3) =>
        /\ pg.limit > pg.collected => PagesAsked = <<1, 2, 3>>
        /\ pg.limit <= 0 => PagesAsked = <<>>
        /\ (pg.limit > 0 /\ Len(pg.log) >= 1 /\ PageSize(1) >= pg.limit) =>
              PagesAsked = <<1>>
        /\ (pg.limit > 0 /\ Len(pg.log) >= 1 /\ PageSize(1) < pg.limit) =>
              /\ Len(pg.log) >= 2
              /\ PageSize(1) + PageSize(2) >= pg.limit => PagesAsked = <<1, 2>>
              /\ PageSize(1) + PageSize(2) < pg.limit => PagesAsked = <<1, 2, 3>>
        /\ pg.limit > 0 => Len(pg.log) >= 1

\* C9 witness: limit is reached on page 2 of the three and the handler returned.
C9_Witness ==
    /\ pg.pc = "returned" /\ Stub3
    /\ Len(pg.log) = 2
    /\ PageSize(1) < pg.limit /\ PageSize(1) + PageSize(2) >= pg.limit

-----------------------------------------------------------------------------
(* Claims about normalize_to_records (specification SpecNormalize) *)

NzDone == nz.pc = "done"
NzExtracting == nz.cfg.has /\ nz.cfg.record_path # <<>>
NzBase == get_by_dotted_path(nz.payload, nz.cfg.record_path)
NzValue(name) == get_by_dotted_path(nz.payload, nz.cfg.value_paths[name])
NzNames == DOMAIN nz.cfg.value_paths
\* Some value path resolves to a non-list or to a list of another length than
\* the base list.
NzValueOff ==
    \E name \in NzNames :
        \/ NzValue(name).t # "list"
        \/ NzBase.t = "list" /\ Len(NzValue(name).list) # Len(NzBase.list)

NzPassedThrough ==
    [j \in 1..Len(nz.result.records) |->
        IF nz.result.records[j].kind = "item" THEN nz.result.records[j].elem
        ELSE Elem("null", -1)]

\* C11: without a record_path normalize_to_records returns, for a list payload,
\* a list of the same length and order where dict elements are unchanged and
\* every other element e becomes {value: e}; for a dict payload the one-element
\* list [payload]; for any other payload p, [{value: p}]. A list of dicts is
\* returned equal to the input.
C11_FallbackShape ==
    (NzDone /\ ~NzExtracting) =>
        /\ nz.result.outcome = "returned"
        /\ nz.payload.t = "list" =>
              /\ Len(nz.result.records) = Len(nz.payload.list)
              /\ \A j \in 1..Len(nz.payload.list) :
                    nz.result.records[j] =
                        IF nz.payload.list[j].t = "dict"
                        THEN [kind |-> "item", elem |-> nz.payload.list[j],
                              fields |-> <<>>]
                        ELSE [kind |-> "wrapped", elem |-> nz.payload.list[j],
                              fields |-> <<>>]
              /\ (\A j \in 1..Len(nz.payload.list) : nz.payload.list[j].t = "dict")
                    => NzPassedThrough = nz.payload.list
        /\ nz.payload.t = "dict" =>
              /\ Len(nz.result.records) = 1
              /\ nz.result.records[1].kind = "payload"
        /\ nz.payload.t \notin {"list", "dict"} =>
              nz.result.records =
                  << [kind |-> "wrapped", elem |-> [t |-> nz.payload.t, num |-> nz.payload.num],
                      fields |-> <<>>] >>

\* C11 witness: a call with value_paths configured but no record_path, on a
\* list holding a dict and then a number.
C11_Witness ==
    /\ NzDone /\ nz.cfg.has /\ nz.cfg.record_path = <<>>
    /\ DOMAIN nz.cfg.value_paths # {}
    /\ nz.payload.t = "list" /\ Len(nz.payload.list) = 2
    /\ nz.payload.list[1].t = "dict" /\ nz.payload.list[2].t = "num"
    /\ nz.result.outcome = "returned"
-----------------------------------------------------------------------------
(* Claims about the artifacts of a run (specification Spec) *)

ErrorFiles == {f \in disk : f.name = "error.json"}

\* C12: no artifact written by a run contains a traceback unless the run was
\* started with debug = true; with debug = false every failure on disk is a
\* structured object with exactly type and message.
C12_NoTracebackUnlessDebug ==
    ~debug =>
        /\ \A f \in disk : "traceback" \notin f.keys
        /\ \A f \in ErrorFiles : f.keys = {"type", "message"}
        /\ "traceback" \notin manifest.fatal_error
        /\ \A i \in 1..Len(outcomes) :
              (Failed(outcomes[i]) /\ i <= idx) =>
                  \E f \in ErrorFiles : f.by = i

\* C12 witness: a finished run without debug in which one source failed at
\* construction and another inside run(), each leaving an error.json.
C12_Witness ==
    /\ pc = "done" /\ ~debug /\ Len(sourcesCfg) = 2
    /\ outcomes[1].kind = "build_error"
    /\ outcomes[2].kind \in {"fetch_error", "normalize_error"}
    /\ \E f \in ErrorFiles : f.by = 1
    /\ \E f \in ErrorFiles : f.by = 2
\* C15: within one run the artifact files of two different entries of the
\* source list never share a path, also for entries with equal or missing ids:
\* N entries give N distinct per-source directories.
C15_EntriesNeverSharePaths ==
    /\ \A f \in disk : \A g \in disk :
          (f.dir = g.dir /\ f.name = g.name) => f.by = g.by
    /\ pc = "done" =>
          Cardinality({f.dir : f \in disk}) = Len(manifest.sources)

-----------------------------------------------------------------------------
(* Claims about the order of the classifier (specification SpecHandler) *)

HdAuth == hd.resp.status \in {401, 403} \/ HdAuthHint
HdHtml ==
    \/ CtSaysHtml(CtLower(hd.resp.ct))
    \/ hd.resp.body.doctype
    \/ hd.resp.body.htmlEnd # 0 /\ hd.resp.body.htmlEnd <= HtmlWindow
ClassifierOrder == <<"auth", "html", "status", "parse">>

\* C17: in every handler the classification steps run in a fixed order before
\* any format parsing: AUTH_REQUIRED is decided first, then
\* UNEXPECTED_CONTENT_TYPE, then HTTP_ERROR; the parser is reached only for a
\* response with status < 400 that is not HTML and has no auth hint.
C17_ClassifierOrder ==
    hd.pc # "idle" =>
        /\ Len(hd.steps) <= 4
        /\ \A i \in 1..Len(hd.steps) : hd.steps[i] = ClassifierOrder[i]
        /\ hd.parsed => (~HdAuth /\ ~HdHtml /\ hd.resp.status < 400)
        /\ HdDone =>
              /\ (hd.code = "AUTH_REQUIRED") <=> HdAuth
              /\ (hd.code = "UNEXPECTED_CONTENT_TYPE") <=> (~HdAuth /\ HdHtml)
              /\ (hd.code = "HTTP_ERROR") <=>
                     (~HdAuth /\ ~HdHtml /\ hd.resp.status >= 400)
              /\ hd.parsed <=> (~HdAuth /\ ~HdHtml /\ hd.resp.status < 400)

\* C17 witness: a 503 answer that is an HTML page with a login hint, for which
\* all three classifications apply, is AUTH_REQUIRED after the first step only.
C17_Witness ==
    /\ hd.pc = "raised" /\ hd.code = "AUTH_REQUIRED"
    /\ hd.resp.status = 503 /\ HdHtml /\ HdAuthHint
    /\ hd.steps = <<"auth">> /\ ~hd.parsed

-----------------------------------------------------------------------------
(* Claims about the accumulation loop (specifications SpecPaged, SpecPagedLive) *)

\* Every answer so far was a well-formed page [meta, data].
PgWellFormed == \A i \in 1..Len(pg.log) : pg.log[i].reply.kind = "page"

\* len(collected) after the first i pages
RECURSIVE PgCollected(_)
PgCollected(i) == IF i = 0 THEN 0 ELSE PgCollected(i - 1) + PageSize(i)

\* After page i one of the three stop conditions holds: limit reached, an empty
\* page, or page number >= reported pages.
PgStop(i) ==
    \/ PgCollected(i) >= pg.limit
    \/ PageSize(i) = 0
    \/ pg.log[i].reply.pages # NoPages /\ pg.log[i].page >= pg.log[i].reply.pages

PgBounded ==
    (pg.pc # "idle" /\ PgWellFormed) =>
        /\ Len(pg.log) <= Max(pg.limit, 0)
        /\ \A i \in 1..Len(pg.log) : pg.log[i].page = i
        /\ \A i \in 1..(Len(pg.log) - 1) : ~PgStop(i)
        /\ pg.pc = "returned" =>
              /\ Len(pg.log) > 0 => PgStop(Len(pg.log))
              /\ Len(pg.log) = 0 => pg.limit <= 0
              /\ pg.records <= Max(pg.limit, 0)
              /\ pg.records <= pg.collected

\* C19: the accumulation loop always terminates: for every limit and every
\* sequence of well-formed page responses (also when no pages count is ever
\* reported and no page is empty) it stops at the first of limit reached, an
\* empty page, or page number >= reported pages, it issues at most
\* max(limit, 0) page requests, and the returned list has at most limit entries
\* (none for a limit below 1).
C19_PaginationTerminates ==
    /\ []PgBounded
    /\ <>(pg.pc \in {"returned", "raised"})

\* C19 witness: a server that never reports a pages count and never returns an
\* empty page; the handler returned after limit = 3 one-record pages.
C19_Witness ==
    /\ pg.pc = "returned" /\ pg.limit = 3 /\ Len(pg.log) = 3
    /\ \A i \in 1..3 : /\ pg.log[i].reply.kind = "page"
                        /\ pg.log[i].reply.pages = NoPages
                        /\ PageSize(i) = 1
    /\ pg.records = 3

\* Sum of the retries used by the first i page requests
RECURSIVE PgRetries(_)
PgRetries(i) == IF i = 0 THEN 0 ELSE PgRetries(i - 1) + pg.log[i].reply.retries

\* C20: on a successful return of the paginated handler, metadata retries_used
\* is the sum over all page requests of the retries used for that page and
\* pages_fetched is the number of page requests made, not the values of the
\* last page only.
C20_CumulativeMeta ==
    pg.pc = "returned" =>
        /\ pg.meta.retries_used = PgRetries(Len(pg.log))
        /\ pg.meta.pages_fetched = Len(pg.log)

\* C20 witness: two pages were fetched, the first after one retry and the
\* second without any.
C20_Witness ==
    /\ pg.pc = "returned" /\ Len(pg.log) = 2
    /\ pg.log[1].reply.retries = 1 /\ pg.log[2].reply.retries = 0
    /\ pg.meta.retries_used = 1 /\ pg.meta.pages_fetched = 2

\* The state of the i-th source of the configuration: terminal once its entry
\* is in the manifest, fetching while its handler runs, pending before.
SrcState(i) ==
    IF i <= Len(manifest.sources)
    THEN (IF manifest.sources[i].ok THEN "ok" ELSE "failed")
    ELSE IF pc = "fetching" /\ i = idx + 1 THEN "fetching"
    ELSE "pending"
SrcTerminal(i) == SrcState(i) \in {"ok", "failed"}
VerdictSet == manifest.ok # "None" \/ manifest.exit_code # NoExit \/ exit_code # NoExit

\* One step of the i-th source: it stays, or goes pending -> fetching,
\* fetching -> ok or failed, or (an iteration whose handler cannot be built,
\* which is one step) pending -> failed; it leaves pending only when every
\* source before it is terminal, and a terminal source keeps its entry.
SrcStep(i) ==
    /\ SrcState(i)' # SrcState(i) =>
          /\ <<SrcState(i), SrcState(i)'>> \in
                {<<"pending", "fetching">>, <<"fetching", "ok">>,
                 <<"fetching", "failed">>, <<"pending", "failed">>}
          /\ \A j \in 1..(i - 1) : SrcTerminal(j)
          /\ <<SrcState(i), SrcState(i)'>> = <<"pending", "failed">> =>
                build_source(sourcesCfg[i]) = "SourceError"
    /\ SrcTerminal(i) => manifest'.sources[i] = manifest.sources[i]

\* The sources in order: entries follow the configuration, at most one source
\* is fetching and every source before it is terminal, every source after it
\* pending; the verdict is set only when every source is terminal.
SrcOrdered ==
    /\ Len(manifest.sources) <= Len(sourcesCfg)
    /\ \A i \in 1..Len(manifest.sources) :
          manifest.sources[i].id = SourceId(sourcesCfg[i])
    /\ Len(outcomes) = Len(manifest.sources)
    /\ Cardinality({i \in 1..Len(sourcesCfg) : SrcState(i) = "fetching"}) <= 1
    /\ \A i, j \in 1..Len(sourcesCfg) :
          (i < j /\ SrcState(j) # "pending") => SrcTerminal(i)
    /\ VerdictSet => \A i \in 1..Len(sourcesCfg) : SrcTerminal(i)

\* C25: within a run each source moves pending -> fetching -> ok or failed
\* once and never leaves its terminal state; sources are processed strictly
\* in configuration order with at most one source fetching at any time, and
\* the verdict (manifest ok, exit_code) is set only after every source is in
\* a terminal state.
C25_SourceLifecycle ==
    /\ []SrcOrdered
    /\ [][\A i \in 1..Len(sourcesCfg) : SrcStep(i)]_vars

C25_Witness ==
    /\ pc = "done" /\ Len(sourcesCfg) = 2
    /\ SrcState(1) = "failed" /\ SrcState(2) = "ok"
    /\ manifest.ok = "False"

\* A descriptor that lacks id, type, request.url or file.path, or whose type
\* is none of the three supported ones.
BadDescriptor(source_cfg) ==
    \/ source_cfg.id = ABSENT
    \/ source_cfg.type \notin {"http_json", "file_json", "file_csv"}
    \/ ~source_cfg.target
FilesBy(i) == {w \in disk : w.by = i}
\* The entry a source gets from its descriptor and from what its handler met.
EntryOf(source_cfg, outcome) ==
    [id |-> SourceId(source_cfg), type |-> source_cfg.type,
     ok |-> outcome.kind = "records",
     records |-> IF outcome.kind = "records" THEN outcome.n ELSE 0]
RECURSIVE SumRecords(_)
SumRecords(entries) ==
    IF entries = <<>> THEN 0
    ELSE entries[1].records + SumRecords(Tail(entries))
Attempted == {i \in 1..Len(manifest.sources) : ~BadDescriptor(sourcesCfg[i])}

\* C26: a descriptor that lacks a required field or names an unsupported type
\* fails before any request or file read is made for it; the failure is
\* recorded against that source only (its error.json, its manifest entry with
\* ok = false and records = 0), and the other sources of the run are attempted
\* and counted as if that source were absent.
C26_BadDescriptorFailsAlone ==
    /\ \A i \in 1..Len(manifest.sources) :
          IF BadDescriptor(sourcesCfg[i])
          THEN /\ outcomes[i].kind = "build_error"
               /\ manifest.sources[i] = [NewEntry(sourcesCfg[i]) EXCEPT !.ok = FALSE,
                                                                        !.records = 0]
               /\ {w.name : w \in FilesBy(i)} = {"error.json"}
               /\ \A w \in FilesBy(i) : w.dir = SourceId(sourcesCfg[i])
          ELSE /\ outcomes[i].kind # "build_error"
               /\ manifest.sources[i] = EntryOf(sourcesCfg[i], outcomes[i])
    /\ runs \in {Cardinality(Attempted), Cardinality(Attempted) + 1}
    /\ pc \in {"loop", "done"} =>
          /\ runs = Cardinality(Attempted)
          /\ manifest.summary.sources_ok =
                Cardinality({i \in Attempted : outcomes[i].kind = "records"})
          /\ manifest.summary.records_total =
                SumRecords([i \in 1..Len(manifest.sources) |->
                              IF i \in Attempted THEN manifest.sources[i]
                              ELSE [records |-> 0]])

C26_Witness ==
    /\ pc = "done" /\ Len(sourcesCfg) = 2
    /\ BadDescriptor(sourcesCfg[1]) /\ sourcesCfg[1].id # ABSENT
    /\ sourcesCfg[1].type = "http_json"
    /\ manifest.sources[2].ok /\ manifest.summary.records_total = 1
    /\ runs = 1

\* C27: after the loop, for every source entry of the manifest: ok is true if
\* and only if data.json was written for that source in this run, error.json
\* was written for it if and only if ok is false, entry.records is the number
\* of records in data.json when ok and 0 otherwise, and summary.records_total
\* is the sum of entry.records over all entries.
C27_EntryMatchesFiles ==
    (pc \in {"loop", "done"} /\ LoopRan) =>
        /\ \A i \in 1..Len(manifest.sources) :
              LET entry == manifest.sources[i]
                  data == {w \in FilesBy(i) : w.name = "data.json"}
                  errs == {w \in FilesBy(i) : w.name = "error.json"}
              IN /\ entry.ok <=> data # {}
                 /\ errs # {} <=> ~entry.ok
                 /\ \A w \in data : w.n = entry.records
                 /\ ~entry.ok => entry.records = 0
                 /\ \A w \in data \cup errs : w.dir = entry.id
        /\ manifest.summary.records_total = SumRecords(manifest.sources)

C27_Witness ==
    /\ pc = "done" /\ Len(sourcesCfg) = 2
    /\ outcomes[1].kind = "normalize_error"
    /\ outcomes[2] = [kind |-> "records", n |-> 1]
    /\ manifest.summary.records_total = 1

-----------------------------------------------------------------------------
(* Claims about two runs (specification SpecRuns) *)

\* C13: any two runs on the same out_root write to different run directories:
\* no file path written by one run is written by the other.
C13_RunsNeverSharePaths ==
    rn.pc = "runs" =>
        \A f \in rn.fs : \A g \in rn.fs :
            (f.run_dir = g.run_dir /\ f.dir = g.dir /\ f.name = g.name)
                => f.by = g.by
RunsDone == rn.pc = "runs" /\ rn.run[1].pc = "done" /\ rn.run[2].pc = "done"

-----------------------------------------------------------------------------
(* Claims about the WMS layer extraction (specification SpecWms) *)

\* The Layer elements with a non-empty Name or Title, in document order.
WmQualifying == SelectSeq([k \in 1..Len(wm.doc) |-> k],
                          LAMBDA k : ~SkipLayer(wm.doc[k]))

\* C16: the WMS handler returns one record per Layer element that has a
\* non-empty Name or Title, in document order, skipping the others and stopping
\* as soon as limit records are collected (stated for limit >= 0); each record
\* has layer_name or title non-null.
C16_LayersUpToLimit ==
    (wm.pc = "returned" /\ wm.limit >= 0) =>
        /\ Len(wm.records) = Min(wm.limit, Len(WmQualifying))
        /\ \A j \in 1..Len(wm.records) :
              /\ wm.records[j].layer = WmQualifying[j]
              /\ wm.records[j].layer_name # "None" \/ wm.records[j].title # "None"
-----------------------------------------------------------------------------
(* Claims about the simple JSON handler's schema check (specification SpecSchema) *)

ScDone == sc.pc \in {"raised", "returned"}
ScPair == sc.payload.t = "list" /\ sc.payload.len = 2 /\ sc.payload.second = "list"

\* C21: the simple JSON handler accepts a parsed payload only when it is a
\* two-element array [meta, data] with data a list; every other shape (not a
\* list, fewer or more than two elements, second element not a list) is rejected
\* with SCHEMA_ERROR; on acceptance the records are the first
\* min(limit, len(data)) elements of data (stated for limit >= 0).
C21_TwoElementArrayOnly ==
    (ScDone /\ sc.limit >= 0) =>
        /\ (sc.pc = "returned") <=> ScPair
        /\ ~ScPair => sc.code = "SCHEMA_ERROR"
        /\ sc.pc = "returned" => sc.records = Min(sc.limit, sc.payload.rows)
-----------------------------------------------------------------------------
(* Claims about the WMS handler's URLs (specification SpecWmsUrls) *)

WcDone == wc.pc \in {"raised", "returned"}
WcTried == Len(wc.log) > 0
WcFailedAt(i) ==
    \/ wc.log[i].reply.kind # "xml"
    \/ ~(wc.log[i].reply.root_wms \/ wc.log[i].reply.capability)
WcErrorAt(i) ==
    IF wc.log[i].reply.kind = "xml" THEN "SCHEMA_ERROR" ELSE wc.log[i].reply.code

\* C22: the WMS handler tries its candidate URLs in order (environment override
\* first when set, then the URL built from base_url and endpoint): whenever a
\* candidate fails for any reason the next one is tried, the first candidate
\* that succeeds determines the result and no later one is requested, and when
\* all fail the error raised is the one of the last candidate.
C22_CandidatesInOrder ==
    (wc.variant = "archive" /\ wc.pc \in {"try", "raised", "returned"}
       /\ wc.candidates # <<>>) =>
        /\ wc.candidates = (IF wc.env_url THEN <<"env", "default">> ELSE <<"default">>)
        /\ Len(wc.log) <= Len(wc.candidates)
        /\ \A i \in 1..Len(wc.log) : wc.log[i].url = wc.candidates[i]
        /\ \A i \in 1..(Len(wc.log) - 1) : WcFailedAt(i)
        /\ wc.pc = "returned" =>
              /\ ~WcFailedAt(Len(wc.log))
              /\ wc.records = wc.log[Len(wc.log)].reply.layers
        /\ wc.pc = "raised" =>
              /\ Len(wc.log) = Len(wc.candidates)
              /\ \A i \in 1..Len(wc.log) : WcFailedAt(i)
              /\ wc.code = WcErrorAt(Len(wc.log))

\* C23: the WMS handler returns records only for an XML document that contains
\* a Capability element; every well-formed XML document without one is
\* rejected with SCHEMA_ERROR and yields no records.
C23_CapabilityRequired ==
    (WcDone /\ WcTried /\ wc.log[Len(wc.log)].reply.kind = "xml") =>
        /\ wc.pc = "returned" => wc.log[Len(wc.log)].reply.capability
        /\ ~wc.log[Len(wc.log)].reply.capability =>
              /\ wc.pc = "raised" /\ wc.code = "SCHEMA_ERROR"
              /\ wc.records = 0
-----------------------------------------------------------------------------
(* Claims about the demo's main (specification SpecDemo) *)

DmWritten == dm.pc = "written"
DmFailed == DmWritten /\ dm.fetch # "none"

\* C24: a source's outcome is never partial: when its fetch fails at any step,
\* also on a page after the first with earlier pages collected, the source is
\* recorded as failed with zero records, no record of the failed fetch is in
\* its records file, and exactly one outcome is recorded for it in the run.
C24_OutcomeNeverPartial ==
    DmFailed =>
        /\ dm.files.metadata.status = "failed"
        /\ dm.files.metadata.records_written = 0
        /\ dm.files.records = 0
        /\ Len(dm.report) = 1
        /\ dm.report[1] = [status |-> "failed", records_written |-> 0]

C24_Witness == DmFailed /\ dm.page > 1 /\ dm.collected > 0

\* C28: in the fixed directory data/demo/<source_name> the artifacts describe
\* only the latest run: metadata.json reports a debug snippet path only if the
\* latest run's fetch failed with a debug snippet, and no snippet file of an
\* earlier failed run is left after a later successful run.
C28_SnippetOfLatestRunOnly ==
    DmWritten =>
        /\ dm.files.metadata.snippet => dm.fetch = "fetch_error_snippet"
        /\ dm.fetch = "none" => ~dm.files.snippet
-----------------------------------------------------------------------------
(* Claims about download_datasets (specification SpecDownload) *)

DlDone == dl.pc = "done"
DlCompleted == \E i \in 1..Len(dl.requests) : dl.requests[i] = "complete"

\* C29: a dataset whose download failed on every attempt leaves no file at its
\* destination, so a later run without --overwrite downloads again instead of
\* skipping it as already existing: a destination file exists after a run
\* only if some attempt completed the whole transfer.
C29_NoFileAfterFailedDownload ==
    /\ dl.file # "none" => dl.file = "complete"
    /\ (DlDone /\ dl.reported = "skip") => dl.file = "complete"

\* C30: a dataset is reported as downloaded ([ok], counted in downloaded) only
\* if download_file made at least one request that succeeded and wrote the
\* destination, for every value of --retries, zero and negative included; with
\* retries >= 1 it makes at most retries requests, with waits of 2, 4, 8, ...
\* seconds between them, before raising.
C30_OkOnlyAfterSuccessfulRequest ==
    /\ (DlDone /\ dl.reported = "ok") =>
          /\ Len(dl.requests) >= 1
          /\ dl.requests[Len(dl.requests)] = "complete"
          /\ dl.file = "complete"
          /\ dl.downloaded = 1
    /\ (dl.pc \in {"download", "done"} /\ dl.reported # "skip" /\ dl.retries >= 1) =>
          /\ Len(dl.requests) <= dl.retries
          /\ \A i \in 1..Len(dl.waits) : dl.waits[i] = Pow2(i)
          /\ dl.reported = "error" =>
                /\ Len(dl.requests) = dl.retries
                /\ Len(dl.waits) = dl.retries - 1
                /\ ~DlCompleted
====
